---- MODULE Spec2Model ----
(***************************************************************************)
(* Model of GeoToolCN: the geocoding engine (src/GeoToolCN/core.py), the   *)
(* module-level wrappers with their shared engine (__init__.py) and the    *)
(* administrative tree (admin_tree.py).                                    *)
(*                                                                         *)
(* Coordinates are integers counting half micro-degrees, so that a value   *)
(* "rounded to six decimals" is an even number.  Row positions are 1-based *)
(* here (Python's are 0-based).  A point is [x |-> lng, y |-> lat], as     *)
(* shapely's Point(lng, lat).                                              *)
(***************************************************************************)
EXTENDS Integers, Sequences, FiniteSets, TLC

VARIABLES
    levels,       \* GeoTool._levels: level -> [gdf, name_index, code_index]
    sindexOrder,  \* per level, the order in which gdf.sindex yields row positions
    pc,           \* "idle" (no call in progress) or "done" (a call has returned)
    call,         \* the call made: [op |-> ..., arguments]
    ret,          \* what the call produced: [raised |-> BOOLEAN, value |-> ...]
    _instance,    \* GeoToolCN._instance: None or the shared engine
    _cached_tree, \* admin_tree._cached_tree: None or the tree built
    made,         \* the objects built so far: [engines |-> ..., trees |-> ...]
    threads,      \* per thread, its position in a call and its local variables
    raw           \* the content of data/china_admin.json

\* the state of the package outside one engine
module == <<_instance, _cached_tree, made, threads, raw>>

vars == <<levels, sindexOrder, pc, call, ret, module>>

-----------------------------------------------------------------------------
(* Bounds of the model *)

\* largest coordinate of a query point
GridMax == 4
\* longest batch handed to reverse_batch
MaxBatch == 2
\* most rows in one level's table
MaxRows == 2
\* most GeoTool objects whose construction is started
MaxEngines == 3

-----------------------------------------------------------------------------
(* Program constants *)

_LEVELS == <<"province", "city", "district">>

LevelSet == {_LEVELS[i] : i \in 1..Len(_LEVELS)}

_MERGED_PREFIXES == {"11", "12", "31", "50", "81", "82"}

\* round(v, 6): the coordinate unit is half of 1e-6
Scale == 2

None == [none |-> TRUE]

\* the threads of the process
Threads == {"t1", "t2"}

\* a thread that is in no call
IdleThread ==
    [pc |-> "idle", call |-> [op |-> "none"], acc |-> <<>>,
     ret |-> [raised |-> FALSE, value |-> None], self |-> None]

\* china_admin.json without entries
NoRaw == [provinces |-> <<>>, cities |-> <<>>, districts |-> <<>>]

\* the package as imported: no shared engine, no cached tree, nothing built
Imported ==
    /\ _instance = None
    /\ _cached_tree = None
    /\ made = [engines |-> <<>>, trees |-> <<>>]

\* an engine used directly, by one caller: the package state plays no part
Standalone ==
    /\ Imported
    /\ threads = [t \in Threads |-> IdleThread]
    /\ raw = NoRaw

-----------------------------------------------------------------------------
(* Strings *)

DigitChars == {"0", "1", "2", "3", "4", "5", "6", "7", "8", "9"}

CharAt(s, i) == SubSeq(s, i, i)

\* str.isdigit(): non-empty and every character a digit
IsDigit(s) == Len(s) > 0 /\ \A i \in 1..Len(s) : CharAt(s, i) \in DigitChars

\* str.endswith(suffix)
EndsWith(s, suffix) ==
    /\ Len(s) >= Len(suffix)
    /\ SubSeq(s, Len(s) - Len(suffix) + 1, Len(s)) = suffix

\* s[:n]
Prefix(s, n) == SubSeq(s, 1, IF n < Len(s) THEN n ELSE Len(s))

-----------------------------------------------------------------------------
(* Geometry: the shapely operations the engine calls, on two kinds of      *)
(* polygon.  "rect" is the axis-parallel rectangle (x1,y1)-(x2,y2); "tri"  *)
(* is the right triangle (x1,y1), (x2,y1), (x1,y2) with x2-x1 = y2-y1.     *)

Rect(x1, y1, x2, y2) == [kind |-> "rect", x1 |-> x1, y1 |-> y1, x2 |-> x2, y2 |-> y2]
Tri(x1, y1, leg) == [kind |-> "tri", x1 |-> x1, y1 |-> y1, x2 |-> x1 + leg, y2 |-> y1 + leg]

\* the point lies in the polygon's bounding box (edges included)
InBBox(g, p) == g.x1 <= p.x /\ p.x <= g.x2 /\ g.y1 <= p.y /\ p.y <= g.y2

\* the point lies in the polygon's interior
InInterior(g, p) ==
    /\ g.x1 < p.x /\ p.x < g.x2 /\ g.y1 < p.y /\ p.y < g.y2
    /\ g.kind = "tri" => (p.x - g.x1) + (p.y - g.y1) < g.x2 - g.x1

\* the point lies in the closed polygon (interior or boundary)
InClosure(g, p) ==
    /\ InBBox(g, p)
    /\ g.kind = "tri" => (p.x - g.x1) + (p.y - g.y1) <= g.x2 - g.x1

OnBoundary(g, p) == InClosure(g, p) /\ ~InInterior(g, p)

\* a containment test that counts the boundary, as geometry.covers(point)
ContainsClosed(g, p) == InClosure(g, p)

\* shapely: geometry.contains(point) -- no point of `point` lies in the
\* exterior of the geometry and the point lies in its interior
Contains(g, p) == InInterior(g, p)

\* shapely: geometry.intersects(point)
Intersects(g, p) == InClosure(g, p)

\* shapely: point.within(geometry), the predicate of the spatial join
Within(p, g) == Contains(g, p)

\* shapely: geometry.representative_point() -- the middle of the interior
\* segment of the horizontal line through the middle of the bounding box
RepresentativePoint(g) ==
    LET ymid == (g.y1 + g.y2) \div 2
        xend == IF g.kind = "tri" THEN g.x2 - (ymid - g.y1) ELSE g.x2
    IN  [x |-> (g.x1 + xend) \div 2, y |-> ymid]

\* Python round(v, 6): to the nearest multiple of Scale, a tie to the even one
Round6(v) ==
    LET r == v % Scale
    IN  IF r = 0 THEN v
        ELSE IF 2 * r < Scale THEN v - r
        ELSE IF 2 * r > Scale THEN v + (Scale - r)
        ELSE IF ((v - r) \div Scale) % 2 = 0 THEN v - r
        ELSE v + r

-----------------------------------------------------------------------------
(* Region, ReverseResult *)

Region(name, code, level, latitude, longitude) ==
    [name |-> name, code |-> code, level |-> level,
     latitude |-> latitude, longitude |-> longitude]

ReverseResult(province, city, district) ==
    [province |-> province, city |-> city, district |-> district]

\* shapely: Point(lng, lat)
Point(lng, lat) == [x |-> lng, y |-> lat]

-----------------------------------------------------------------------------
(* _LevelData.load: the table of a level and its two lookup indexes *)

Positions(gdf) == [i \in 1..Len(gdf) |-> i]

\* name -> row positions, in row order (setdefault(...).append(i))
BuildNameIndex(gdf) ==
    [n \in {gdf[i].name : i \in 1..Len(gdf)} |->
        SelectSeq(Positions(gdf), LAMBDA i : gdf[i].name = n)]

\* gb code -> row position; a later row overwrites an earlier one
BuildCodeIndex(gdf) ==
    [c \in {gdf[i].gb : i \in 1..Len(gdf)} |->
        CHOOSE i \in 1..Len(gdf) :
            /\ gdf[i].gb = c
            /\ \A j \in 1..Len(gdf) : gdf[j].gb = c => j <= i]

Load(gdf) ==
    [gdf |-> gdf, name_index |-> BuildNameIndex(gdf), code_index |-> BuildCodeIndex(gdf)]

-----------------------------------------------------------------------------
(* The catalogs the engine is constructed on: per level, up to MaxRows     *)
(* rows of a pool of rows, in the pool's order.                            *)

Row(name, gb, geometry) == [name |-> name, gb |-> gb, geometry |-> geometry]

RowPool ==
    [province |-> << Row("Beijing", "156110000", Rect(0, 0, 4, 4)),
                     Row("Guangdong", "156440000", Tri(0, 0, 4)) >>,
     city     |-> << Row("Beijing", "156110000", Rect(0, 0, 4, 4)),
                     Row("Shixiaqu", "156110100", Rect(0, 0, 4, 2)),
                     Row("Shenzhen", "156440300", Tri(0, 0, 4)) >>,
     district |-> << Row("Haidian", "156110108", Rect(0, 0, 4, 2)),
                     Row("Nanshan", "156440305", Tri(0, 0, 4)) >>]

\* the rows of pool at the positions in S, in pool order
Pick(pool, S) ==
    LET kept == SelectSeq(Positions(pool), LAMBDA i : i \in S)
    IN  [k \in 1..Len(kept) |-> pool[kept[k]]]

Tables(pool) ==
    {Pick(pool, S) : S \in {T \in SUBSET (1..Len(pool)) : Cardinality(T) <= MaxRows}}

\* the orders in which a spatial index over n rows can yield them
Orders(n) == {f \in [1..n -> 1..n] : \A i, j \in 1..n : f[i] = f[j] => i = j}

NoCall == [op |-> "none"]
NoRet == [raised |-> FALSE, value |-> None]

Init ==
    /\ \E t \in [LevelSet -> UNION {Tables(RowPool[l]) : l \in LevelSet}] :
        /\ \A l \in LevelSet : t[l] \in Tables(RowPool[l])
        /\ levels = [l \in LevelSet |-> Load(t[l])]
    /\ sindexOrder \in [LevelSet -> UNION {Orders(n) : n \in 0..MaxRows}]
    /\ \A l \in LevelSet : sindexOrder[l] \in Orders(Len(levels[l].gdf))
    /\ pc = "idle"
    /\ call = NoCall
    /\ ret = NoRet
    /\ Standalone

-----------------------------------------------------------------------------
(* GeoTool._point_in_level *)

\* gdf.sindex.query(point, predicate="intersects"): the rows whose bounding
\* box holds the point and whose geometry intersects it, in the index's order
SindexQuery(level, point) ==
    SelectSeq(sindexOrder[level],
              LAMBDA i : /\ InBBox(levels[level].gdf[i].geometry, point)
                         /\ Intersects(levels[level].gdf[i].geometry, point))

\* the Region built from a matched row's attributes and geometry
MatchedRegion(name, gb, level, geometry) ==
    LET centroid == RepresentativePoint(geometry)
    IN  Region(name, gb, level, Round6(centroid.y), Round6(centroid.x))

RECURSIVE FirstContaining(_, _, _)
\* for idx in candidates: if row.geometry.contains(point): return Region(...)
FirstContaining(candidates, level, point) ==
    IF candidates = <<>> THEN None
    ELSE LET row == levels[level].gdf[Head(candidates)]
         IN  IF Contains(row.geometry, point)
             THEN MatchedRegion(row.name, row.gb, level, row.geometry)
             ELSE FirstContaining(Tail(candidates), level, point)

\* a resolve that trusts the index query and skips the exact test
PointInLevelAnyCandidate(level, point) ==
    LET candidates == SindexQuery(level, point)
    IN  IF candidates = <<>> THEN None
        ELSE LET row == levels[level].gdf[Head(candidates)]
             IN  MatchedRegion(row.name, row.gb, level, row.geometry)

PointInLevel(level, point) ==
    FirstContaining(SindexQuery(level, point), level, point)

-----------------------------------------------------------------------------
(* GeoTool.reverse *)

\* a reverse that gives up on the finer levels after a miss
ReverseShortCircuit(lat, lng) ==
    LET point == Point(lng, lat)
        province == PointInLevel("province", point)
        city == IF province = None THEN None ELSE PointInLevel("city", point)
        district == IF city = None THEN None ELSE PointInLevel("district", point)
    IN  ReverseResult(province, city, district)

ReverseOf(lat, lng) ==
    LET point == Point(lng, lat)
    IN  ReverseResult(PointInLevel("province", point),
                      PointInLevel("city", point),
                      PointInLevel("district", point))

Reverse ==
    /\ pc = "idle"
    /\ \E lat \in 0..GridMax, lng \in 0..GridMax :
        /\ call' = [op |-> "reverse", lat |-> lat, lng |-> lng]
        /\ ret' = [raised |-> FALSE, value |-> ReverseOf(lat, lng)]
    /\ pc' = "done"
    /\ UNCHANGED <<levels, sindexOrder, module>>

-----------------------------------------------------------------------------
(* GeoTool.reverse_batch *)

\* the coordinates a caller passes, as (lat, lng) pairs
Coord == {<<lat, lng>> : lat \in 0..GridMax, lng \in 0..GridMax}

\* the coordinates of the longer batches: the points of the diagonal
DiagCoord == {<<d, d>> : d \in 0..GridMax}

RECURSIVE SeqsUpTo(_, _)
\* the sequences over S of length at most n
SeqsUpTo(S, n) ==
    IF n = 0 THEN {<<>>}
    ELSE LET shorter == SeqsUpTo(S, n - 1)
         IN  shorter \cup {Append(q, e) : q \in shorter, e \in S}

BatchInputs == {<<c>> : c \in Coord} \cup SeqsUpTo(DiagCoord, MaxBatch)

\* gpd.sjoin(pts_gdf, gdf, how="left", predicate="within"), the rows of one
\* point i: one row per polygon the point is within, in ascending order of
\* the polygon's row position, or a single unmatched row (index_right NaN)
JoinRowsOf(i, point, gdf) ==
    LET hits == SelectSeq(Positions(gdf), LAMBDA r : Within(point, gdf[r].geometry))
    IN  IF hits = <<>>
        THEN <<[idx |-> i, isna |-> TRUE]>>
        ELSE [k \in 1..Len(hits) |->
                [idx |-> i, isna |-> FALSE, index_right |-> hits[k],
                 name |-> gdf[hits[k]].name, gb |-> gdf[hits[k]].gb]]

RECURSIVE SJoinFrom(_, _, _)
\* the joined frame: the rows of point i, then those of the later points
SJoinFrom(i, points, gdf) ==
    IF i > Len(points) THEN <<>>
    ELSE JoinRowsOf(i, points[i], gdf) \o SJoinFrom(i + 1, points, gdf)

SJoin(points, gdf) == SJoinFrom(1, points, gdf)

\* a batch level that reads the first row of the whole joined frame
BatchLevelUnfiltered(j, i, level) ==
    IF j = <<>> \/ j[1].isna
    THEN None
    ELSE MatchedRegion(j[1].name, j[1].gb, level,
                       levels[level].gdf[j[1].index_right].geometry)

\* one level of one point: rows = j[j["idx"] == i], then its first row
BatchLevel(j, i, level) ==
    LET rows == SelectSeq(j, LAMBDA row : row.idx = i)
    IN  IF rows = <<>> \/ rows[1].isna
        THEN None
        ELSE LET row == rows[1]
                 matched_geom == levels[level].gdf[row.index_right].geometry
             IN  MatchedRegion(row.name, row.gb, level, matched_geom)

ReverseBatchOf(coords) ==
    IF coords = <<>> THEN <<>>
    ELSE LET points == [i \in 1..Len(coords) |-> Point(coords[i][2], coords[i][1])]
             joined == [level \in LevelSet |-> SJoin(points, levels[level].gdf)]
         IN  [i \in 1..Len(points) |->
                ReverseResult(BatchLevel(joined["province"], i, "province"),
                              BatchLevel(joined["city"], i, "city"),
                              BatchLevel(joined["district"], i, "district"))]

ReverseBatch ==
    /\ pc = "idle"
    /\ \E coords \in BatchInputs :
        /\ call' = [op |-> "reverse_batch", coords |-> coords]
        /\ ret' = [raised |-> FALSE, value |-> ReverseBatchOf(coords)]
    /\ pc' = "done"
    /\ UNCHANGED <<levels, sindexOrder, module>>

-----------------------------------------------------------------------------
(* GeoTool.is_in_china *)

IsInChinaOf(lat, lng) == PointInLevel("province", Point(lng, lat)) # None

IsInChina ==
    /\ pc = "idle"
    /\ \E lat \in 0..GridMax, lng \in 0..GridMax :
        /\ call' = [op |-> "is_in_china", lat |-> lat, lng |-> lng]
        /\ ret' = [raised |-> FALSE, value |-> IsInChinaOf(lat, lng)]
    /\ pc' = "done"
    /\ UNCHANGED <<levels, sindexOrder, module>>

-----------------------------------------------------------------------------
(* Adcode lookup *)

\* GeoTool._row_to_region
RowToRegion(row, level) ==
    LET pt == RepresentativePoint(row.geometry)
    IN  Region(row.name, row.gb, level, Round6(pt.y), Round6(pt.x))

\* _adcode_to_gb without the country prefix
AdcodeToGbBare(adcode) == adcode

\* GeoTool._adcode_to_gb
AdcodeToGb(adcode) == "156" \o adcode

\* what _adcode_level returns for an invalid adcode (Python's None)
NoLevel == "None"

\* _adcode_level testing the "00" suffix before the "0000" suffix
AdcodeLevelCityFirst(adcode) ==
    IF Len(adcode) # 6 \/ ~IsDigit(adcode) THEN NoLevel
    ELSE IF EndsWith(adcode, "00") THEN "city"
    ELSE IF EndsWith(adcode, "0000") THEN "province"
    ELSE "district"

\* GeoTool._adcode_level
AdcodeLevel(adcode) ==
    IF Len(adcode) # 6 \/ ~IsDigit(adcode) THEN NoLevel
    ELSE IF EndsWith(adcode, "0000") THEN "province"
    ELSE IF EndsWith(adcode, "00") THEN "city"
    ELSE "district"

\* GeoTool._lookup_gb
LookupGb(level, gb_code) ==
    LET ld == levels[level]
    IN  IF gb_code \notin DOMAIN ld.code_index THEN None
        ELSE RowToRegion(ld.gdf[ld.code_index[gb_code]], level)

\* a city code always derived from the adcode's first four digits
CityGbDerived(adcode) == AdcodeToGb(Prefix(adcode, 4) \o "00")

\* the GB code lookup_adcode looks the city up under (the merge rule)
CityGb(adcode) ==
    IF Prefix(adcode, 2) \in _MERGED_PREFIXES
    THEN AdcodeToGb(Prefix(adcode, 2) \o "0000")
    ELSE AdcodeToGb(Prefix(adcode, 4) \o "00")

\* a result that keeps the city of a province-level adcode
AdcodeResultNoEarlyReturn(level, province, city, district) ==
    IF level = "province"
    THEN IF province # None THEN ReverseResult(province, city, None) ELSE None
    ELSE IF level = "city"
    THEN IF province = None /\ city = None
         THEN None
         ELSE ReverseResult(province, city, None)
    ELSE IF province = None /\ city = None /\ district = None
         THEN None
         ELSE ReverseResult(province, city, district)

\* a result that is none as soon as one lookup misses
AdcodeResultAnyMiss(level, province, city, district) ==
    IF level = "province"
    THEN IF province # None THEN ReverseResult(province, None, None) ELSE None
    ELSE IF level = "city"
    THEN IF province = None \/ city = None
         THEN None
         ELSE ReverseResult(province, city, None)
    ELSE IF province = None \/ city = None \/ district = None
         THEN None
         ELSE ReverseResult(province, city, district)

\* what lookup_adcode returns from the lookups of the adcode's level
AdcodeResult(level, province, city, district) ==
    IF level = "province"
    THEN IF province # None THEN ReverseResult(province, None, None) ELSE None
    ELSE IF level = "city"
    THEN IF province = None /\ city = None
         THEN None
         ELSE ReverseResult(province, city, None)
    ELSE IF province = None /\ city = None /\ district = None
         THEN None
         ELSE ReverseResult(province, city, district)

\* GeoTool.lookup_adcode
LookupAdcodeOf(adcode) ==
    LET level == AdcodeLevel(adcode)
    IN  IF level = NoLevel THEN None
        ELSE
        LET prefix2 == Prefix(adcode, 2)
            prov_gb == AdcodeToGb(prefix2 \o "0000")
            province == LookupGb("province", prov_gb)
            city == LookupGb("city", CityGb(adcode))
            district == LookupGb("district", AdcodeToGb(adcode))
        IN  AdcodeResult(level, province, city, district)

\* the adcodes a caller passes: well-formed ones of every level, with and
\* without a catalog entry, and malformed ones
AdcodeInputs ==
    {p \o m \o d : p \in {"11", "44", "99"}, m \in {"00", "01", "03"},
                   d \in {"00", "05", "08"}}
        \cup {"", "abc", "12345", "11010x", "x10108", "1101080"}

LookupAdcode ==
    /\ pc = "idle"
    /\ \E adcode \in AdcodeInputs :
        /\ call' = [op |-> "lookup_adcode", adcode |-> adcode]
        /\ ret' = [raised |-> FALSE, value |-> LookupAdcodeOf(adcode)]
    /\ pc' = "done"
    /\ UNCHANGED <<levels, sindexOrder, module>>

-----------------------------------------------------------------------------
(* GeoTool.is_in_region *)

ValueError == [raised |-> TRUE, value |-> "ValueError"]

\* a target code that forgets the merge rule
IsInRegionGbNoMerge(adcode, level) == AdcodeToGb(adcode)

\* the GB code is_in_region looks up at the adcode's level
IsInRegionGb(adcode, level) ==
    LET prefix2 == Prefix(adcode, 2)
    IN  IF level = "city" /\ prefix2 \in _MERGED_PREFIXES
        THEN AdcodeToGb(prefix2 \o "0000")
        ELSE AdcodeToGb(adcode)

\* an is_in_region that answers false for an adcode with no catalog entry
IsInRegionFalseOnMiss(lat, lng, adcode) ==
    LET level == AdcodeLevel(adcode)
    IN  IF level = NoLevel THEN ValueError
        ELSE
        LET gb_code == IsInRegionGb(adcode, level)
            ld == levels[level]
        IN  [raised |-> FALSE,
             value |-> /\ gb_code \in DOMAIN ld.code_index
                       /\ Contains(ld.gdf[ld.code_index[gb_code]].geometry,
                                   Point(lng, lat))]

\* is_in_region building its point as Point(lat, lng)
IsInRegionSwapped(lat, lng, adcode) ==
    LET level == AdcodeLevel(adcode)
    IN  IF level = NoLevel THEN ValueError
        ELSE
        LET gb_code == IsInRegionGb(adcode, level)
            ld == levels[level]
        IN  IF gb_code \notin DOMAIN ld.code_index THEN ValueError
            ELSE [raised |-> FALSE,
                  value |-> Contains(ld.gdf[ld.code_index[gb_code]].geometry,
                                     Point(lat, lng))]

IsInRegionOf(lat, lng, adcode) ==
    LET level == AdcodeLevel(adcode)
    IN  IF level = NoLevel THEN ValueError
        ELSE
        LET gb_code == IsInRegionGb(adcode, level)
            ld == levels[level]
        IN  IF gb_code \notin DOMAIN ld.code_index THEN ValueError
            ELSE [raised |-> FALSE,
                  value |-> Contains(ld.gdf[ld.code_index[gb_code]].geometry,
                                     Point(lng, lat))]

IsInRegion ==
    /\ pc = "idle"
    /\ \E c \in Coord, adcode \in AdcodeInputs :
        /\ call' = [op |-> "is_in_region", lat |-> c[1], lng |-> c[2], adcode |-> adcode]
        /\ ret' = IsInRegionOf(c[1], c[2], adcode)
    /\ pc' = "done"
    /\ UNCHANGED <<levels, sindexOrder, module>>

\* the caller takes the result
Return ==
    /\ pc = "done"
    /\ pc' = "idle"
    /\ call' = NoCall
    /\ ret' = NoRet
    /\ UNCHANGED <<levels, sindexOrder, module>>

Next ==
    \/ Reverse
    \/ ReverseBatch
    \/ IsInChina
    \/ LookupAdcode
    \/ IsInRegion
    \/ Return

Spec == Init /\ [][Next]_vars

-----------------------------------------------------------------------------
(* Vocabulary of the properties *)

\* a call of op has returned
Done(op) == pc = "done" /\ call.op = op

\* the query point of a reverse, is_in_china or is_in_region call
CallPoint == [x |-> call.lng, y |-> call.lat]

\* the row positions of a level whose polygon has the point in its interior
InteriorRows(level, p) ==
    {i \in 1..Len(levels[level].gdf) : InInterior(levels[level].gdf[i].geometry, p)}

\* the row positions of a level whose polygon has the point on its boundary
BoundaryRows(level, p) ==
    {i \in 1..Len(levels[level].gdf) : OnBoundary(levels[level].gdf[i].geometry, p)}

\* the attributes a Region reports for row i of a level
RegionOfRow(level, i) ==
    LET row == levels[level].gdf[i]
        rp == RepresentativePoint(row.geometry)
    IN  [name |-> row.name, code |-> row.gb, level |-> level,
         latitude |-> Round6(rp.y), longitude |-> Round6(rp.x)]

\* the least element of a non-empty set of integers
Least(S) == CHOOSE m \in S : \A n \in S : m <= n

-----------------------------------------------------------------------------
\* C1: for every catalog and every point p, reverse_batch([p])[0] equals
\* reverse(p) field by field (same code, name, level and representative
\* point, or both absent, at each of the three levels).
C1_BatchOfOneEqualsReverse ==
    (Done("reverse_batch") /\ Len(call.coords) = 1) =>
        \A level \in LevelSet :
            ret.value[1][level] = ReverseOf(call.coords[1][1], call.coords[1][2])[level]

-----------------------------------------------------------------------------
\* C2: reverse_batch returns a list as long as its input whose i-th result
\* is what reverse_batch returns for the i-th point alone; the empty input
\* yields the empty list.
C2_BatchIsPointwise ==
    Done("reverse_batch") =>
        /\ ~ret.raised
        /\ Len(ret.value) = Len(call.coords)
        /\ call.coords = <<>> => ret.value = <<>>
        /\ \A i \in 1..Len(call.coords) :
            ret.value[i] = ReverseBatchOf(<<call.coords[i]>>)[1]

\* a batch of two points returned, a duplicate of a point or two points with
\* different answers, one of them matching no region
C2_Witness ==
    /\ Done("reverse_batch")
    /\ Len(call.coords) = 2
    /\ ret.value[1] # ret.value[2]
    /\ ret.value[2] = ReverseResult(None, None, None)
    /\ ret.value[1].province # None

-----------------------------------------------------------------------------
\* C3: resolve(level, point) returns the region of the first polygon, in the
\* order the index yields candidates, that contains the point, and none
\* exactly when no polygon of the level contains it; the prefilter discards
\* no polygon that contains the point.
C3_ResolveFirstContaining ==
    Done("reverse") =>
        \A level \in LevelSet :
            LET order == sindexOrder[level]
                hits == {k \in 1..Len(order) : order[k] \in InteriorRows(level, CallPoint)}
            IN  /\ (ret.value[level] = None) <=> (hits = {})
                /\ hits # {} => ret.value[level] = RegionOfRow(level, order[Least(hits)])
                /\ \A i \in InteriorRows(level, CallPoint) :
                    \E k \in 1..Len(SindexQuery(level, CallPoint)) :
                        SindexQuery(level, CallPoint)[k] = i

\* a point inside two polygons of a level whose index yields the later row
\* first: resolve returned that later row's region
C3_Witness ==
    /\ Done("reverse")
    /\ \E level \in LevelSet :
        /\ InteriorRows(level, CallPoint) = {1, 2}
        /\ sindexOrder[level] = <<2, 1>>
        /\ ret.value[level] = RegionOfRow(level, 2)

-----------------------------------------------------------------------------
\* the rows of the level of a well-formed adcode that carry the GB code
\* is_in_region resolves the adcode to
TargetRows(adcode) ==
    LET level == AdcodeLevel(adcode)
    IN  {i \in 1..Len(levels[level].gdf) :
            levels[level].gdf[i].gb = IsInRegionGb(adcode, level)}

-----------------------------------------------------------------------------
\* C5: each field of reverse(p) is resolve(level, p), whatever the other two
\* levels give: a field is absent exactly when no polygon of its level
\* contains p.  No error is raised, and is_in_china(p) is true exactly when
\* reverse(p).province is present.
C5_ReverseLevelsIndependent ==
    /\ Done("reverse") =>
        /\ ~ret.raised
        /\ \A level \in LevelSet :
            /\ ret.value[level] = PointInLevel(level, CallPoint)
            /\ (ret.value[level] = None) <=> (InteriorRows(level, CallPoint) = {})
    /\ Done("is_in_china") =>
        /\ ~ret.raised
        /\ ret.value = (ReverseOf(call.lat, call.lng).province # None)
        /\ ret.value = (InteriorRows("province", CallPoint) # {})

\* a reverse that missed at province level and hit at district level
C5_Witness ==
    /\ Done("reverse")
    /\ ret.value.province = None
    /\ ret.value.city = None
    /\ ret.value.district # None

-----------------------------------------------------------------------------
(* Vocabulary of the adcode properties *)

\* exactly six digit characters
WellFormed(a) == Len(a) = 6 /\ \A i \in 1..6 : SubSeq(a, i, i) \in DigitChars

\* the GB code under which a well-formed adcode is resolved at level f:
\* the province from the two-digit prefix, the city by the merge rule, the
\* district from the whole adcode
AdcodeKey(a, f) ==
    IF f = "province" THEN "156" \o SubSeq(a, 1, 2) \o "0000"
    ELSE IF f = "city"
    THEN IF SubSeq(a, 1, 2) \in {"11", "12", "31", "50", "81", "82"}
         THEN "156" \o SubSeq(a, 1, 2) \o "0000"
         ELSE "156" \o SubSeq(a, 1, 4) \o "00"
    ELSE "156" \o a

\* the levels at or above the detected level of a well-formed adcode
Performed(a) ==
    IF AdcodeLevel(a) = "province" THEN {"province"}
    ELSE IF AdcodeLevel(a) = "city" THEN {"province", "city"}
    ELSE {"province", "city", "district"}

\* the code is in the level's code index
Indexed(f, key) == key \in DOMAIN levels[f].code_index

\* the region the level's code index gives for a code, or none
RegionOfCode(f, key) ==
    IF Indexed(f, key) THEN RegionOfRow(f, levels[f].code_index[key]) ELSE None

-----------------------------------------------------------------------------
\* C6: is_in_region signals an error exactly when the adcode is malformed or
\* the GB code it resolves to at its detected level is absent from that
\* level's code index; otherwise it returns a boolean.
C6_IsInRegionErrors ==
    Done("is_in_region") =>
        /\ ret.raised <=>
            \/ ~WellFormed(call.adcode)
            \/ ~Indexed(AdcodeLevel(call.adcode),
                        AdcodeKey(call.adcode, AdcodeLevel(call.adcode)))
        /\ ~ret.raised => ret.value \in BOOLEAN

\* is_in_region has signalled an error for a well-formed adcode whose
\* province is in the catalog while the adcode's own region is not
C6_Witness ==
    /\ Done("is_in_region")
    /\ ret.raised
    /\ WellFormed(call.adcode)
    /\ AdcodeLevel(call.adcode) = "district"
    /\ Indexed("province", AdcodeKey(call.adcode, "province"))

-----------------------------------------------------------------------------
\* C7: for a well-formed adcode A, is_in_region tests the point against the
\* polygon of the region lookup_adcode(A) reports at A's detected level, and
\* signals an error exactly when lookup_adcode(A) is none or has that field
\* absent.
C7_IsInRegionAgreesWithLookup ==
    (Done("is_in_region") /\ WellFormed(call.adcode)) =>
        LET level == AdcodeLevel(call.adcode)
            la == LookupAdcodeOf(call.adcode)
            reported == IF la = None THEN None ELSE la[level]
            rows == {i \in 1..Len(levels[level].gdf) : RegionOfRow(level, i) = reported}
        IN  /\ ret.raised <=> (reported = None)
            /\ ~ret.raised =>
                /\ rows # {}
                /\ \A i \in rows :
                    ret.value = InInterior(levels[level].gdf[i].geometry, CallPoint)

\* is_in_region has answered true for a city-level adcode of a merged
\* prefix in a catalog that also holds a city row under the adcode's own code
C7_Witness ==
    /\ Done("is_in_region")
    /\ ~ret.raised
    /\ WellFormed(call.adcode)
    /\ AdcodeLevel(call.adcode) = "city"
    /\ SubSeq(call.adcode, 1, 2) \in _MERGED_PREFIXES
    /\ Indexed("city", "156" \o call.adcode)
    /\ ret.value = TRUE

-----------------------------------------------------------------------------
\* C8: merge rule. For a city-level or district-level adcode of a merged
\* prefix the city is looked up under the province's GB code, for any other
\* prefix under "156" + first four digits + "00"; a returned city field
\* carries that code.
C8_MergeRule ==
    (Done("lookup_adcode") /\ AdcodeLevel(call.adcode) \in {"city", "district"}) =>
        LET key == AdcodeKey(call.adcode, "city")
        IN  IF Indexed("city", key)
            THEN /\ ret.value # None
                 /\ ret.value.city = RegionOfCode("city", key)
                 /\ ret.value.city.code = key
            ELSE ret.value = None \/ ret.value.city = None

\* lookup_adcode has returned a city for a district-level adcode of a
\* merged prefix in a catalog that also holds a city row under the code
\* derived from the adcode's first four digits
C8_Witness ==
    /\ Done("lookup_adcode")
    /\ AdcodeLevel(call.adcode) = "district"
    /\ SubSeq(call.adcode, 1, 2) \in _MERGED_PREFIXES
    /\ Indexed("city", "156" \o SubSeq(call.adcode, 1, 4) \o "00")
    /\ "156" \o SubSeq(call.adcode, 1, 4) \o "00" # AdcodeKey(call.adcode, "city")
    /\ ret.value # None
    /\ ret.value.city # None

-----------------------------------------------------------------------------
\* C9: lookup_adcode fills only the levels at or above the adcode's detected
\* level, each with the lookup of its own level (the district under "156" +
\* the adcode), and every present field carries the level name of its field.
C9_LookupFillsLevels ==
    (Done("lookup_adcode") /\ ret.value # None) =>
        \A f \in LevelSet :
            /\ f \notin Performed(call.adcode) => ret.value[f] = None
            /\ f \in Performed(call.adcode) =>
                ret.value[f] = RegionOfCode(f, AdcodeKey(call.adcode, f))
            /\ ret.value[f] # None => ret.value[f].level = f

\* lookup_adcode has returned for a province-level adcode whose GB code is
\* also in the city-level code index
C9_Witness ==
    /\ Done("lookup_adcode")
    /\ ret.value # None
    /\ AdcodeLevel(call.adcode) = "province"
    /\ Indexed("city", AdcodeKey(call.adcode, "city"))

-----------------------------------------------------------------------------
\* C10: lookup_adcode never raises; it returns none for a malformed adcode,
\* and for a well-formed one exactly when every lookup performed misses;
\* otherwise the missed levels are absent in the result.
C10_LookupNoneIffAllMiss ==
    Done("lookup_adcode") =>
        /\ ~ret.raised
        /\ ~WellFormed(call.adcode) => ret.value = None
        /\ WellFormed(call.adcode) =>
            /\ (ret.value = None) <=>
                \A f \in Performed(call.adcode) :
                    ~Indexed(f, AdcodeKey(call.adcode, f))
            /\ ret.value # None =>
                \A f \in Performed(call.adcode) :
                    (ret.value[f] = None) <=> ~Indexed(f, AdcodeKey(call.adcode, f))

\* lookup_adcode has returned a result with the province missing and the
\* city present
C10_Witness ==
    /\ Done("lookup_adcode")
    /\ ret.value # None
    /\ ret.value.province = None
    /\ ret.value.city # None

-----------------------------------------------------------------------------
(* Forward geocoding: GeoTool.search and GeoTool._filter_by_parent *)

\* Python None passed for an optional str parameter (no input string is it)
NoArg == "<None>"

KeyError == [raised |-> TRUE, value |-> "KeyError"]
ReError == [raised |-> TRUE, value |-> "re.error"]
Returned(v) == [raised |-> FALSE, value |-> v]

\* re.compile(pat) fails.  The patterns modelled are made of literal
\* characters, ".", an unclosed "(" or "[", and a leading "*".
RegexError(pat) ==
    \E i \in 1..Len(pat) :
        \/ CharAt(pat, i) \in {"(", "["}
        \/ (i = 1 /\ CharAt(pat, i) = "*")

\* re.search(pat, s) finds a match, for a pattern that compiles: "." stands
\* for any one character, any other character for itself
RegexSearch(pat, s) ==
    \E i \in 1..(Len(s) - Len(pat) + 1) :
        \A k \in 1..Len(pat) :
            \/ CharAt(pat, k) = "."
            \/ CharAt(pat, k) = CharAt(s, i + k - 1)

\* the literal test: s[i:i+len(q)] == q for some i
LiteralSearch(q, s) ==
    \E i \in 1..(Len(s) - Len(q) + 1) : SubSeq(s, i, i + Len(q) - 1) = q

\* gdf["name"].str.contains(query, na=False): pandas reads query as a
\* regular expression (regex=True is the default)
StrContains(query, name) == RegexSearch(query, name)

\* the regions of the rows at the given positions
RegionsAt(positions, lvl) ==
    [k \in 1..Len(positions) |-> RowToRegion(levels[lvl].gdf[positions[k]], lvl)]

\* the rows the substring fallback keeps, the last row first
FuzzyRowsDescending(lvl, query) ==
    LET rows == SelectSeq(Positions(levels[lvl].gdf),
                          LAMBDA i : StrContains(query, levels[lvl].gdf[i].name))
    IN  [k \in 1..Len(rows) |-> rows[Len(rows) + 1 - k]]

\* the rows the substring fallback keeps, in row order
FuzzyRows(lvl, query) ==
    SelectSeq(Positions(levels[lvl].gdf),
              LAMBDA i : StrContains(query, levels[lvl].gdf[i].name))

\* the loop body with the fallback taken whenever the name has no exact match
SearchLevelIgnoringFuzzy(lvl, query, fuzzy) ==
    IF lvl \notin LevelSet THEN KeyError
    ELSE LET ld == levels[lvl]
         IN  IF IsDigit(query)
             THEN IF query \in DOMAIN ld.code_index
                  THEN Returned(RegionsAt(<<ld.code_index[query]>>, lvl))
                  ELSE Returned(<<>>)
             ELSE IF query \in DOMAIN ld.name_index /\ ld.name_index[query] # <<>>
             THEN Returned(RegionsAt(ld.name_index[query], lvl))
             ELSE IF RegexError(query)
             THEN ReError
             ELSE Returned(RegionsAt(FuzzyRows(lvl, query), lvl))

\* the loop body looking every query up in the name index first
SearchLevelNameFirst(lvl, query, fuzzy) ==
    IF lvl \notin LevelSet THEN KeyError
    ELSE LET ld == levels[lvl]
         IN  IF query \in DOMAIN ld.name_index /\ ld.name_index[query] # <<>>
             THEN Returned(RegionsAt(ld.name_index[query], lvl))
             ELSE IF IsDigit(query)
             THEN IF query \in DOMAIN ld.code_index
                  THEN Returned(RegionsAt(<<ld.code_index[query]>>, lvl))
                  ELSE Returned(<<>>)
             ELSE IF fuzzy
             THEN IF RegexError(query)
                  THEN ReError
                  ELSE Returned(RegionsAt(FuzzyRows(lvl, query), lvl))
             ELSE Returned(<<>>)

\* one pass of the loop "for lvl in levels" of search
SearchLevel(lvl, query, fuzzy) ==
    IF lvl \notin LevelSet THEN KeyError
    ELSE LET ld == levels[lvl]
         IN  IF IsDigit(query)
             THEN IF query \in DOMAIN ld.code_index
                  THEN Returned(RegionsAt(<<ld.code_index[query]>>, lvl))
                  ELSE Returned(<<>>)
             ELSE IF query \in DOMAIN ld.name_index /\ ld.name_index[query] # <<>>
             THEN Returned(RegionsAt(ld.name_index[query], lvl))
             ELSE IF fuzzy
             THEN IF RegexError(query)
                  THEN ReError
                  ELSE Returned(RegionsAt(FuzzyRows(lvl, query), lvl))
             ELSE Returned(<<>>)

RECURSIVE SearchLevelsReversed(_, _, _)
\* the loop over the levels in scope, the last level's regions first
SearchLevelsReversed(lvls, query, fuzzy) ==
    IF lvls = <<>> THEN Returned(<<>>)
    ELSE LET first == SearchLevel(Head(lvls), query, fuzzy)
         IN  IF first.raised THEN first
             ELSE LET rest == SearchLevelsReversed(Tail(lvls), query, fuzzy)
                  IN  IF rest.raised THEN rest
                      ELSE Returned(rest.value \o first.value)

RECURSIVE SearchLevels(_, _, _)
\* the loop over the levels in scope; an exception ends it
SearchLevels(lvls, query, fuzzy) ==
    IF lvls = <<>> THEN Returned(<<>>)
    ELSE LET first == SearchLevel(Head(lvls), query, fuzzy)
         IN  IF first.raised THEN first
             ELSE LET rest == SearchLevels(Tail(lvls), query, fuzzy)
                  IN  IF rest.raised THEN rest
                      ELSE Returned(first.value \o rest.value)

\* _filter_by_parent resolving a parent name to the last row of its entry
FilterByParentLastRow(regions, parent_level, parent_query) ==
    LET parent_ld == levels[parent_level]
        keep(parent_geom) ==
            SelectSeq(regions,
                      LAMBDA r : Contains(parent_geom, Point(r.longitude, r.latitude)))
    IN  IF IsDigit(parent_query)
        THEN IF parent_query \notin DOMAIN parent_ld.code_index
             THEN <<>>
             ELSE keep(parent_ld.gdf[parent_ld.code_index[parent_query]].geometry)
        ELSE IF parent_query \notin DOMAIN parent_ld.name_index
                \/ parent_ld.name_index[parent_query] = <<>>
             THEN <<>>
             ELSE keep(parent_ld.gdf[parent_ld.name_index[parent_query]
                                        [Len(parent_ld.name_index[parent_query])]].geometry)

\* GeoTool._filter_by_parent
FilterByParent(regions, parent_level, parent_query) ==
    LET parent_ld == levels[parent_level]
        keep(parent_geom) ==
            SelectSeq(regions,
                      LAMBDA r : Contains(parent_geom, Point(r.longitude, r.latitude)))
    IN  IF IsDigit(parent_query)
        THEN IF parent_query \notin DOMAIN parent_ld.code_index
             THEN <<>>
             ELSE keep(parent_ld.gdf[parent_ld.code_index[parent_query]].geometry)
        ELSE IF parent_query \notin DOMAIN parent_ld.name_index
                \/ parent_ld.name_index[parent_query] = <<>>
             THEN <<>>
             ELSE keep(parent_ld.gdf[parent_ld.name_index[parent_query][1]].geometry)

\* levels = [level] if level else list(_LEVELS)
LevelsInScope(level) ==
    IF level # NoArg /\ level # "" THEN <<level>> ELSE _LEVELS

\* GeoTool.search
SearchOf(query, level, province, city, fuzzy) ==
    LET found == SearchLevels(LevelsInScope(level), query, fuzzy)
    IN  IF found.raised THEN found
        ELSE LET by_province == IF province # NoArg
                                THEN FilterByParent(found.value, "province", province)
                                ELSE found.value
                 by_city == IF city # NoArg
                            THEN FilterByParent(by_province, "city", city)
                            ELSE by_province
             IN  Returned(by_city)

\* the queries, names and codes, a caller passes to search
QueryInputs ==
    {"Beijing", "Chaoyang", "Shenzhen", "en", "", ".", "(", "*", "[",
     "156110000", "156440300", "999"}

\* the values passed for level: absent, the three levels, and unknown ones
LevelInputs == {NoArg, "province", "city", "district", "", "town"}

ProvinceInputs == {NoArg, "BeijingShi", "156440000", "Beijing"}

CityInputs == {NoArg, "Shenzhen", "Shen"}

Search ==
    /\ pc = "idle"
    /\ \E query \in QueryInputs, level \in LevelInputs, province \in ProvinceInputs,
          city \in CityInputs, fuzzy \in BOOLEAN :
        /\ call' = [op |-> "search", query |-> query, level |-> level,
                    province |-> province, city |-> city, fuzzy |-> fuzzy]
        /\ ret' = SearchOf(query, level, province, city, fuzzy)
    /\ pc' = "done"
    /\ UNCHANGED <<levels, sindexOrder, module>>

-----------------------------------------------------------------------------
(* GeoTool.list_regions, GeoTool.get_region, GeoTool._adcode_level *)

ListRegionsOf(level) ==
    IF level \notin LevelSet THEN ValueError
    ELSE Returned(RegionsAt(Positions(levels[level].gdf), level))

ListRegions ==
    /\ pc = "idle"
    /\ \E level \in LevelInputs \ {NoArg} :
        /\ call' = [op |-> "list_regions", level |-> level]
        /\ ret' = ListRegionsOf(level)
    /\ pc' = "done"
    /\ UNCHANGED <<levels, sindexOrder, module>>

RECURSIVE GetRegionFromLast(_, _)
\* the scan of get_region returning the last code-index hit
GetRegionFromLast(lvls, code) ==
    IF lvls = <<>> THEN None
    ELSE LET later == GetRegionFromLast(Tail(lvls), code)
         IN  IF later # None THEN later
             ELSE IF code \in DOMAIN levels[Head(lvls)].code_index
             THEN RowToRegion(levels[Head(lvls)].gdf[levels[Head(lvls)].code_index[code]],
                              Head(lvls))
             ELSE None

RECURSIVE GetRegionFrom(_, _)
\* for lvl in _LEVELS: the first code-index hit
GetRegionFrom(lvls, code) ==
    IF lvls = <<>> THEN None
    ELSE IF code \in DOMAIN levels[Head(lvls)].code_index
    THEN RowToRegion(levels[Head(lvls)].gdf[levels[Head(lvls)].code_index[code]],
                     Head(lvls))
    ELSE GetRegionFrom(Tail(lvls), code)

GetRegionOf(code) == GetRegionFrom(_LEVELS, code)

CodeInputs ==
    {"156110000", "156440000", "156440300", "156110105", "156440305", "999", "",
     "Beijing"}

GetRegion ==
    /\ pc = "idle"
    /\ \E code \in CodeInputs :
        /\ call' = [op |-> "get_region", code |-> code]
        /\ ret' = Returned(GetRegionOf(code))
    /\ pc' = "done"
    /\ UNCHANGED <<levels, sindexOrder, module>>

\* the strings passed to _adcode_level: those of AdcodeInputs and further
\* lengths and digit patterns
LevelProbeInputs ==
    AdcodeInputs \cup {"000000", "100000", "001000", "000010", "0000", "00",
                       "ab0000", "abcd00", "abcdef", "00000", "0000000", "1100 0"}

AdcodeLevelCall ==
    /\ pc = "idle"
    /\ \E adcode \in LevelProbeInputs :
        /\ call' = [op |-> "_adcode_level", adcode |-> adcode]
        /\ ret' = Returned(AdcodeLevel(adcode))
    /\ pc' = "done"
    /\ UNCHANGED <<levels, sindexOrder, module>>

-----------------------------------------------------------------------------
(* The catalog queries on catalogs with repeated names, a name that is a   *)
(* part of another, an all-digit name, a code shared by two levels and a   *)
(* district row carrying a city-pattern code.                              *)

CatalogPool ==
    [province |-> << Row("BeijingShi", "156110000", Rect(0, 0, 4, 4)),
                     Row("Guangdong", "156440000", Rect(4, 0, 8, 4)) >>,
     city     |-> << Row("Beijing", "156110000", Rect(0, 0, 4, 4)),
                     Row("Shenzhen", "156440100", Rect(0, 0, 4, 4)),
                     Row("Shenzhen", "156440300", Rect(4, 0, 8, 4)) >>,
     district |-> << Row("Chaoyang", "156110105", Rect(1, 1, 3, 3)),
                     Row("Chaoyang", "156440305", Rect(5, 1, 7, 3)),
                     Row("Chaoyangqu", "156110108", Rect(0, 0, 4, 2)),
                     Row("999", "156990108", Rect(5, 1, 7, 3)),
                     Row("Shenzhen", "156440300", Rect(4, 0, 8, 4)) >>]

\* the catalog queries read no spatial index: it yields rows in row order
InitCatalog ==
    /\ \E t \in [LevelSet -> UNION {Tables(CatalogPool[l]) : l \in LevelSet}] :
        /\ \A l \in LevelSet : t[l] \in Tables(CatalogPool[l])
        /\ levels = [l \in LevelSet |-> Load(t[l])]
    /\ sindexOrder = [l \in LevelSet |-> Positions(levels[l].gdf)]
    /\ pc = "idle"
    /\ call = NoCall
    /\ ret = NoRet
    /\ Standalone

NextCatalog ==
    \/ Search
    \/ ListRegions
    \/ GetRegion
    \/ LookupAdcode
    \/ AdcodeLevelCall
    \/ Return

SpecCatalog == InitCatalog /\ [][NextCatalog]_vars

-----------------------------------------------------------------------------
\* C11 (as stated): for every code D = "156" + A of the district-level code
\* index, lookup_adcode(A) returns a result whose district is present and
\* carries the code D.
C11_DistrictRoundTrip ==
    (Done("lookup_adcode") /\ Indexed("district", "156" \o call.adcode)) =>
        /\ ret.value # None
        /\ ret.value.district # None
        /\ ret.value.district.code = "156" \o call.adcode

\* C11: the round trip holds for every district-index code D = "156" + A
\* whose six-digit adcode A does not end in "00"; an adcode ending in "00" is
\* read as a city or province adcode and the district stays absent.
C11_DistrictRoundTripNonZero ==
    (Done("lookup_adcode") /\ Indexed("district", "156" \o call.adcode)) =>
        IF EndsWith(call.adcode, "00")
        THEN ret.value # None => ret.value.district = None
        ELSE /\ ret.value # None
             /\ ret.value.district # None
             /\ ret.value.district.code = "156" \o call.adcode

\* lookup_adcode has returned the district for an adcode taken from a code
\* of the district index
C11_Witness ==
    /\ Done("lookup_adcode")
    /\ Indexed("district", "156" \o call.adcode)
    /\ ~EndsWith(call.adcode, "00")
    /\ ret.value # None
    /\ ret.value.district # None

-----------------------------------------------------------------------------
\* C12: _adcode_level is a total function of the string: it never raises; it
\* gives the invalid marker exactly when the string is not six characters
\* long or holds a non-digit character; otherwise province exactly when the
\* last four characters are "0000", else city exactly when the last two are
\* "00", else district.
C12_AdcodeLevelBySuffix ==
    Done("_adcode_level") =>
        LET a == call.adcode
            invalid == Len(a) # 6 \/ \E i \in 1..Len(a) : SubSeq(a, i, i) \notin DigitChars
        IN  /\ ~ret.raised
            /\ (ret.value = NoLevel) <=> invalid
            /\ ~invalid =>
                /\ (ret.value = "province") <=> SubSeq(a, 3, 6) = "0000"
                /\ (ret.value = "city") <=>
                       (SubSeq(a, 3, 6) # "0000" /\ SubSeq(a, 5, 6) = "00")
                /\ (ret.value = "district") <=> SubSeq(a, 5, 6) # "00"

\* _adcode_level has classified a six-digit string with zeros in the middle
\* pair only, and one ending in "0000"
C12_Witness ==
    /\ Done("_adcode_level")
    /\ \/ (call.adcode = "110008" /\ ret.value = "district")
       \/ (call.adcode = "110000" /\ ret.value = "province")

-----------------------------------------------------------------------------
(* Vocabulary of the search properties *)

\* search has returned a list
Searched == Done("search") /\ ~ret.raised

\* no province or city filter was passed
Unfiltered == call.province = NoArg /\ call.city = NoArg

\* the levels a valid level argument puts in scope
Scope(level) == IF level = NoArg THEN LevelSet ELSE {level}

\* the rows of a level whose name is the string, in row order
ExactRows(l, name) ==
    SelectSeq(Positions(levels[l].gdf), LAMBDA i : levels[l].gdf[i].name = name)

\* the regions of a list that belong to a level, in the list's order
OfLevel(regions, l) == SelectSeq(regions, LAMBDA r : r.level = l)

-----------------------------------------------------------------------------
\* C13: for a name query, each level in scope contributes its exact-name
\* rows when it has any; a level without an exact match contributes nothing
\* unless fuzzy is true; with fuzzy false the call never fails, every
\* returned name equals the query, and the result is empty when no level in
\* scope has an exact match.
C13_ExactBeforeFallback ==
    (Done("search") /\ ~IsDigit(call.query) /\ call.level \in LevelSet \cup {NoArg}) =>
        /\ ~call.fuzzy => ~ret.raised
        /\ Searched =>
            /\ ~call.fuzzy =>
                /\ \A k \in 1..Len(ret.value) : ret.value[k].name = call.query
                /\ (\A l \in Scope(call.level) : ExactRows(l, call.query) = <<>>)
                       => ret.value = <<>>
            /\ Unfiltered =>
                \A l \in LevelSet :
                    LET exact == ExactRows(l, call.query)
                        got == OfLevel(ret.value, l)
                    IN  /\ l \notin Scope(call.level) => got = <<>>
                        /\ (l \in Scope(call.level) /\ exact # <<>>) =>
                            got = [k \in 1..Len(exact) |-> RegionOfRow(l, exact[k])]
                        /\ (l \in Scope(call.level) /\ exact = <<>> /\ ~call.fuzzy) =>
                            got = <<>>

\* an unfiltered fuzzy search has returned the exact match of a level whose
\* table also holds a longer name containing the query
C13_Witness ==
    /\ Searched
    /\ Unfiltered
    /\ call.fuzzy
    /\ call.query = "Chaoyang"
    /\ \E i \in 1..Len(levels.district.gdf) : levels.district.gdf[i].name = "Chaoyangqu"
    /\ \E k \in 1..Len(ret.value) : ret.value[k].name = "Chaoyang"

-----------------------------------------------------------------------------
\* C14: for every non-digit query (the empty string and strings holding ".",
\* "*", "(" or "[" included), a fuzzy search never raises, and each level in
\* scope without an exact match contributes exactly the regions whose name
\* holds the query as a literal contiguous substring, in row order.
C14_FallbackIsLiteralSubstring ==
    (Done("search") /\ ~IsDigit(call.query) /\ call.fuzzy /\ Unfiltered
        /\ call.level \in LevelSet \cup {NoArg}) =>
        /\ ~ret.raised
        /\ \A l \in Scope(call.level) :
            ExactRows(l, call.query) = <<>> =>
                LET rows == SelectSeq(Positions(levels[l].gdf),
                                      LAMBDA i : LiteralSearch(call.query, levels[l].gdf[i].name))
                IN  OfLevel(ret.value, l) = [k \in 1..Len(rows) |-> RegionOfRow(l, rows[k])]

-----------------------------------------------------------------------------
\* the code-index hits of the levels, province first, that are in the scope
CodeHits(code, scope) ==
    LET hit(l) == IF l \in scope /\ Indexed(l, code)
                  THEN <<RegionOfCode(l, code)>> ELSE <<>>
    IN  hit("province") \o hit("city") \o hit("district")

\* C15: an all-digit query is a code: the search never fails, whatever fuzzy
\* is; every returned region carries the query as its code, also when a
\* region's name is the same digit string; each level in scope gives at most
\* one region; unfiltered, the result is the code-index hits of the levels
\* in scope, province first.
C15_DigitQueryIsCode ==
    (Done("search") /\ IsDigit(call.query) /\ call.level \in LevelSet \cup {NoArg}) =>
        /\ ~ret.raised
        /\ \A k \in 1..Len(ret.value) : ret.value[k].code = call.query
        /\ \A l \in LevelSet :
            /\ Len(OfLevel(ret.value, l)) <= 1
            /\ l \notin Scope(call.level) => OfLevel(ret.value, l) = <<>>
        /\ Unfiltered => ret.value = CodeHits(call.query, Scope(call.level))

\* a code stored at the province and the city level has been searched and
\* both records came back, the province first
C15_Witness ==
    /\ Searched
    /\ Unfiltered
    /\ call.level = NoArg
    /\ IsDigit(call.query)
    /\ Len(ret.value) = 2
    /\ ret.value[1].level = "province"
    /\ ret.value[2].level = "city"

-----------------------------------------------------------------------------
\* the place of a level in the iteration order of search
Rank(l) == CHOOSE i \in 1..Len(_LEVELS) : _LEVELS[i] = l

\* the levels in scope that hold a row named exactly as the query
ExactLevels(query, level) == {l \in Scope(level) : ExactRows(l, query) # <<>>}

\* the case of C16: an unfiltered search with the default fuzzy, for a name
\* that is exactly the name of a region at a level in scope
ExactNameSearched ==
    /\ Searched
    /\ Unfiltered
    /\ call.fuzzy
    /\ ~IsDigit(call.query)
    /\ call.level \in LevelSet \cup {NoArg}
    /\ ExactLevels(call.query, call.level) # {}

-----------------------------------------------------------------------------
\* the row a parent filter value resolves to at its level: by code when the
\* value is all digits, else the first row named exactly so; 0 when none
ParentRow(l, v) ==
    IF IsDigit(v)
    THEN IF Indexed(l, v) THEN levels[l].code_index[v] ELSE 0
    ELSE IF ExactRows(l, v) # <<>> THEN ExactRows(l, v)[1] ELSE 0

\* the filter is absent, or its parent's polygon contains the region's
\* representative point
InParent(r, l, v) ==
    \/ v = NoArg
    \/ /\ ParentRow(l, v) # 0
       /\ Contains(levels[l].gdf[ParentRow(l, v)].geometry,
                   Point(r.longitude, r.latitude))

\* the list the same search returns without parent filters
UnfilteredResult ==
    SearchOf(call.query, call.level, NoArg, NoArg, call.fuzzy).value

\* C17: a search with province and/or city filters that resolve returns, in
\* unchanged order, exactly the regions of the unfiltered search whose
\* representative point is contained in the polygon of each given parent.
C17_FilterKeepsContained ==
    (Searched /\ ~Unfiltered
        /\ (call.province # NoArg => ParentRow("province", call.province) # 0)
        /\ (call.city # NoArg => ParentRow("city", call.city) # 0)) =>
        ret.value = SelectSeq(UnfilteredResult,
                              LAMBDA r : /\ InParent(r, "province", call.province)
                                         /\ InParent(r, "city", call.city))

\* a search filtered by a city name carried by two rows with different
\* polygons has kept some regions of the unfiltered result and dropped others
C17_Witness ==
    /\ Searched
    /\ call.city = "Shenzhen"
    /\ Len(ExactRows("city", "Shenzhen")) = 2
    /\ ret.value # <<>>
    /\ Len(ret.value) < Len(UnfilteredResult)

-----------------------------------------------------------------------------
\* C18: when a given province or city filter value resolves to no row of
\* its level (no code for an all-digit value, no exact name otherwise), the
\* search returns the empty list and signals no error, whatever the query,
\* fuzzy and a valid level are.
C18_UnresolvedParentGivesEmpty ==
    (Done("search") /\ call.level \in LevelSet \cup {NoArg}
        /\ \/ (call.province # NoArg /\ ParentRow("province", call.province) = 0)
           \/ (call.city # NoArg /\ ParentRow("city", call.city) = 0)) =>
        /\ ~ret.raised
        /\ ret.value = <<>>

-----------------------------------------------------------------------------
\* C19: every call of search or list_regions whose level value is given and
\* is not province, city or district (the empty string included) ends with
\* an error and returns no regions.
C19_UnknownLevelRejected ==
    ((Done("search") \/ Done("list_regions"))
        /\ call.level # NoArg /\ call.level \notin LevelSet) =>
        ret.raised

-----------------------------------------------------------------------------
\* the levels whose code index holds the code
LevelsHolding(code) == {l \in LevelSet : Indexed(l, code)}

\* C20: get_region never raises; it returns none exactly when no level's
\* code index holds the code; otherwise it returns the region the code index
\* gives at the first of province, city, district that holds the code: its
\* code is the argument and its level is that level.
C20_GetRegionFirstLevel ==
    Done("get_region") =>
        /\ ~ret.raised
        /\ (ret.value = None) <=> LevelsHolding(call.code) = {}
        /\ LevelsHolding(call.code) # {} =>
            LET first == CHOOSE l \in LevelsHolding(call.code) :
                             \A m \in LevelsHolding(call.code) : Rank(l) <= Rank(m)
            IN  /\ ret.value = RegionOfCode(first, call.code)
                /\ ret.value.code = call.code
                /\ ret.value.level = first

\* get_region has answered for a code held by two levels' code indexes
C20_Witness ==
    /\ Done("get_region")
    /\ Cardinality(LevelsHolding(call.code)) = 2
    /\ ret.value # None

-----------------------------------------------------------------------------
(* Concurrent queries on one engine: each thread calls a method of the     *)
(* same GeoTool object; reverse resolves its three levels in three steps,  *)
(* between which the other thread may run.                                 *)

\* the calls the threads make
ThreadCalls ==
    {[op |-> "reverse", lat |-> c[1], lng |-> c[2]] : c \in DiagCoord}
    \cup {[op |-> "reverse_batch", coords |-> <<c>>] : c \in {<<1, 1>>}}
    \cup {[op |-> "search", query |-> "Beijing", level |-> NoArg,
           province |-> NoArg, city |-> NoArg, fuzzy |-> TRUE],
          [op |-> "list_regions", level |-> "city"],
          [op |-> "get_region", code |-> "156110000"],
          [op |-> "lookup_adcode", adcode |-> "110108"],
          [op |-> "is_in_china", lat |-> 1, lng |-> 1],
          [op |-> "is_in_region", lat |-> 1, lng |-> 1, adcode |-> "110000"]}

\* what the method returns or raises when nothing else runs
Alone(c) ==
    CASE c.op = "reverse" -> Returned(ReverseOf(c.lat, c.lng))
      [] c.op = "reverse_batch" -> Returned(ReverseBatchOf(c.coords))
      [] c.op = "search" -> SearchOf(c.query, c.level, c.province, c.city, c.fuzzy)
      [] c.op = "list_regions" -> ListRegionsOf(c.level)
      [] c.op = "get_region" -> Returned(GetRegionOf(c.code))
      [] c.op = "lookup_adcode" -> Returned(LookupAdcodeOf(c.adcode))
      [] c.op = "is_in_china" -> Returned(IsInChinaOf(c.lat, c.lng))
      [] c.op = "is_in_region" -> IsInRegionOf(c.lat, c.lng, c.adcode)

\* where the values a call has computed so far are kept: every name a
\* method assigns is a local of its own call, none is an attribute of self
FrameShared(t) == "t1"

Frame(t) == t

\* a thread enters a method of the engine
Begin(t) ==
    /\ threads[t].pc = "idle"
    /\ \E c \in ThreadCalls :
        threads' = [threads EXCEPT ![t].pc = "running", ![t].call = c,
                                   ![Frame(t)].acc = <<>>]
    /\ UNCHANGED <<levels, sindexOrder, pc, call, ret, _instance, _cached_tree, made, raw>>

\* reverse: the next _point_in_level call
ResolveLevel(t) ==
    /\ threads[t].pc = "running"
    /\ threads[t].call.op = "reverse"
    /\ Len(threads[Frame(t)].acc) < Len(_LEVELS)
    /\ LET f == Frame(t)
           lvl == _LEVELS[Len(threads[f].acc) + 1]
           point == Point(threads[t].call.lng, threads[t].call.lat)
       IN  threads' = [threads EXCEPT ![f].acc = Append(@, PointInLevel(lvl, point))]
    /\ UNCHANGED <<levels, sindexOrder, pc, call, ret, _instance, _cached_tree, made, raw>>

\* reverse: return ReverseResult(...)
FinishReverse(t) ==
    /\ threads[t].pc = "running"
    /\ threads[t].call.op = "reverse"
    /\ Len(threads[Frame(t)].acc) >= Len(_LEVELS)
    /\ LET acc == threads[Frame(t)].acc
       IN  threads' = [threads EXCEPT
                ![t].pc = "done",
                ![t].ret = Returned(ReverseResult(acc[1], acc[2], acc[3]))]
    /\ UNCHANGED <<levels, sindexOrder, pc, call, ret, _instance, _cached_tree, made, raw>>

\* any other method: it reads the tables and indexes and returns
Answer(t) ==
    /\ threads[t].pc = "running"
    /\ threads[t].call.op # "reverse"
    /\ threads' = [threads EXCEPT ![t].pc = "done",
                                   ![t].ret = Alone(threads[t].call)]
    /\ UNCHANGED <<levels, sindexOrder, pc, call, ret, _instance, _cached_tree, made, raw>>

\* the caller takes the result
Leave(t) ==
    /\ threads[t].pc = "done"
    /\ threads' = [threads EXCEPT ![t].pc = "idle", ![t].call = NoCall,
                                   ![t].ret = NoRet, ![t].self = None,
                                   ![Frame(t)].acc = <<>>]
    /\ UNCHANGED <<levels, sindexOrder, pc, call, ret, _instance, _cached_tree, made, raw>>

\* one engine on full tables, shared by the threads
InitThreads ==
    /\ levels = [l \in LevelSet |->
                    Load(SubSeq(RowPool[l], 1,
                                IF Len(RowPool[l]) < MaxRows THEN Len(RowPool[l]) ELSE MaxRows))]
    /\ sindexOrder \in [LevelSet -> UNION {Orders(n) : n \in 0..MaxRows}]
    /\ \A l \in LevelSet : sindexOrder[l] \in Orders(Len(levels[l].gdf))
    /\ pc = "idle"
    /\ call = NoCall
    /\ ret = NoRet
    /\ Standalone

NextThreads ==
    \E t \in Threads :
        \/ Begin(t)
        \/ ResolveLevel(t)
        \/ FinishReverse(t)
        \/ Answer(t)
        \/ Leave(t)

SpecThreads == InitThreads /\ [][NextThreads]_vars

\* every call that has returned gave what the same call gives alone
Isolated ==
    \A t \in Threads :
        threads[t].pc = "done" => threads[t].ret = Alone(threads[t].call)

\* C21: no step of a query changes a level's table, name index or code
\* index, or the spatial index; and under every interleaving each query
\* returns the result it returns when it runs alone.
C21_QueriesDoNotInterfere ==
    /\ []Isolated
    /\ [][levels' = levels /\ sindexOrder' = sindexOrder]_vars

\* a reverse has returned although the other thread resolved levels of its
\* own reverse, for another point, in the middle of it
C21_Witness ==
    /\ threads["t1"].pc = "done"
    /\ threads["t1"].call.op = "reverse"
    /\ threads["t1"].ret.value.district # None
    /\ threads["t2"].pc = "running"
    /\ threads["t2"].call.op = "reverse"
    /\ threads["t2"].call # threads["t1"].call
    /\ Len(threads["t2"].acc) = 2

-----------------------------------------------------------------------------
(* The module-level wrappers and the lazy singleton (__init__.py), with    *)
(* GeoTool.__init__ / _load_all loading the three level files one by one.  *)
(* An engine is a reference [id |-> i] to made.engines[i], which records   *)
(* the levels its _levels dict holds and the number of files visited.      *)

Ref(i) == [id |-> i]

Engine(ref) == made.engines[ref.id]

\* GeoTool.__init__: self._levels = {}
NewEngine == [_levels |-> {}, visited |-> 0]

LoadError == [raised |-> TRUE, value |-> "LoadError"]

\* one call of every wrapper
ModuleCalls ==
    {[op |-> "reverse", lat |-> 1, lng |-> 1],
     [op |-> "reverse_batch", coords |-> << <<1, 1>> >>],
     [op |-> "search", query |-> "Beijing", level |-> NoArg,
      province |-> NoArg, city |-> NoArg, fuzzy |-> TRUE],
     [op |-> "list_regions", level |-> "city"],
     [op |-> "get_region", code |-> "156110000"],
     [op |-> "lookup_adcode", adcode |-> "110108"],
     [op |-> "is_in_china", lat |-> 1, lng |-> 1],
     [op |-> "is_in_region", lat |-> 1, lng |-> 1, adcode |-> "110000"]}

\* a thread calls a wrapper, which calls _get_instance()
CallWrapper(t) ==
    /\ threads[t].pc = "idle"
    /\ \E c \in ModuleCalls :
        threads' = [threads EXCEPT ![t].pc = "test", ![t].call = c]
    /\ UNCHANGED <<levels, sindexOrder, pc, call, ret, _instance, _cached_tree, made, raw>>

\* if _instance is None: -- the shared engine exists
TestInstanceSet(t) ==
    /\ threads[t].pc = "test"
    /\ _instance # None
    /\ threads' = [threads EXCEPT ![t].pc = "return"]
    /\ UNCHANGED <<levels, sindexOrder, pc, call, ret, _instance, _cached_tree, made, raw>>

\* if _instance is None: -- it does not: GeoTool() starts
TestInstanceNone(t) ==
    /\ threads[t].pc = "test"
    /\ _instance = None
    /\ Len(made.engines) < MaxEngines
    /\ made' = [made EXCEPT !.engines = Append(@, NewEngine)]
    /\ threads' = [threads EXCEPT ![t].pc = "construct",
                                   ![t].self = Ref(Len(made.engines) + 1)]
    /\ UNCHANGED <<levels, sindexOrder, pc, call, ret, _instance, _cached_tree, raw>>

\* the level whose file _load_all reads next
NextFile(t) == _LEVELS[Engine(threads[t].self).visited + 1]

\* _load_all: self._levels[level] = _LevelData.load(path) succeeds
LoadLevel(t) ==
    /\ threads[t].pc = "construct"
    /\ Engine(threads[t].self).visited < Len(_LEVELS)
    /\ made' = [made EXCEPT !.engines[threads[t].self.id] =
                    [_levels |-> @._levels \cup {NextFile(t)}, visited |-> @.visited + 1]]
    /\ UNCHANGED <<levels, sindexOrder, pc, call, ret, _instance, _cached_tree, threads, raw>>

\* the load error caught inside the loop and the level left out
LoadFailsSkipped(t) ==
    /\ threads[t].pc = "construct"
    /\ Engine(threads[t].self).visited < Len(_LEVELS)
    /\ made' = [made EXCEPT !.engines[threads[t].self.id].visited = @ + 1]
    /\ UNCHANGED <<levels, sindexOrder, pc, call, ret, _instance, _cached_tree, threads, raw>>

\* _load_all: _LevelData.load(path) raises (file missing or malformed); the
\* exception leaves _load_all, __init__, _get_instance and the wrapper
LoadFails(t) ==
    /\ threads[t].pc = "construct"
    /\ Engine(threads[t].self).visited < Len(_LEVELS)
    /\ threads' = [threads EXCEPT ![t].pc = "done", ![t].ret = LoadError,
                                   ![t].self = None]
    /\ UNCHANGED <<levels, sindexOrder, pc, call, ret, _instance, _cached_tree, made, raw>>

\* _instance = GeoTool(): the constructor has returned
AssignInstance(t) ==
    /\ threads[t].pc = "construct"
    /\ Engine(threads[t].self).visited = Len(_LEVELS)
    /\ _instance' = threads[t].self
    /\ threads' = [threads EXCEPT ![t].pc = "return", ![t].self = None]
    /\ UNCHANGED <<levels, sindexOrder, pc, call, ret, _cached_tree, made, raw>>

\* return _instance
ReturnInstance(t) ==
    /\ threads[t].pc = "return"
    /\ threads' = [threads EXCEPT ![t].pc = "query", ![t].self = _instance]
    /\ UNCHANGED <<levels, sindexOrder, pc, call, ret, _instance, _cached_tree, made, raw>>

\* the method of the engine _get_instance() returned; a level its _levels
\* lacks is a KeyError
Serve(t) ==
    /\ threads[t].pc = "query"
    /\ threads' = [threads EXCEPT
            ![t].pc = "done",
            ![t].ret = IF Engine(threads[t].self)._levels = LevelSet
                       THEN Alone(threads[t].call) ELSE KeyError]
    /\ UNCHANGED <<levels, sindexOrder, pc, call, ret, _instance, _cached_tree, made, raw>>

\* the data directory holds the full tables; nothing is constructed yet
InitModule ==
    /\ levels = [l \in LevelSet |->
                    Load(SubSeq(RowPool[l], 1,
                                IF Len(RowPool[l]) < MaxRows THEN Len(RowPool[l]) ELSE MaxRows))]
    /\ sindexOrder = [l \in LevelSet |-> Positions(levels[l].gdf)]
    /\ pc = "idle"
    /\ call = NoCall
    /\ ret = NoRet
    /\ Standalone

NextModule ==
    \E t \in Threads :
        \/ CallWrapper(t)
        \/ TestInstanceSet(t)
        \/ TestInstanceNone(t)
        \/ LoadLevel(t)
        \/ LoadFails(t)
        \/ AssignInstance(t)
        \/ ReturnInstance(t)
        \/ Serve(t)
        \/ Leave(t)

SpecModule == InitModule /\ [][NextModule]_vars

-----------------------------------------------------------------------------
\* the engine holds all three levels
Complete(ref) == Engine(ref)._levels = LevelSet

\* the thread holds an engine to run, or has run, a query on
Serving(t) == threads[t].pc \in {"query", "done"} /\ threads[t].self # None

\* C22: an engine lacking a level is referenced only by the thread that is
\* still constructing it: it is never the shared instance and never the
\* engine a query runs on; a call whose construction met a load failure ends
\* with the error and without an engine; every answered query ran on an
\* engine with all three levels.
C22_NoPartialEngine ==
    /\ _instance # None => Complete(_instance)
    /\ \A t \in Threads :
        /\ threads[t].self # None =>
            (Complete(threads[t].self) \/ threads[t].pc = "construct")
        /\ Serving(t) => Complete(threads[t].self)
        /\ (threads[t].pc = "done" /\ threads[t].ret = LoadError) =>
            threads[t].self = None
        /\ (threads[t].pc = "done" /\ threads[t].ret # LoadError) =>
            /\ Serving(t)
            /\ threads[t].ret = Alone(threads[t].call)

\* a construction failed after two levels were loaded; the caller got the
\* error and no shared instance was stored
C22_Witness ==
    /\ \E t \in Threads : threads[t].pc = "done" /\ threads[t].ret = LoadError
    /\ \E i \in 1..Len(made.engines) :
        /\ made.engines[i]._levels = {"province", "city"}
        /\ \A t \in Threads : threads[t].self # Ref(i)
    /\ _instance = None

-----------------------------------------------------------------------------
\* the engines whose construction has completed
Constructed == {i \in 1..Len(made.engines) : made.engines[i].visited = Len(_LEVELS)}

\* C23: under every interleaving of threads calling the wrappers, at most
\* one engine is ever constructed, and all calls are served by the same one.
C23_SingleEngine ==
    /\ Cardinality(Constructed) <= 1
    /\ \A t, u \in Threads :
        (Serving(t) /\ Serving(u)) => threads[t].self = threads[u].self

-----------------------------------------------------------------------------
(* The administrative tree (admin_tree.py).  A raw entry is a pair         *)
(* <<code, name>> with a six-digit code; a tree is an object made.trees[i] *)
(* referred to as [id |-> i].                                              *)

Digits == <<"0", "1", "2", "3", "4", "5", "6", "7", "8", "9">>

RECURSIVE CodeNum(_)
\* the place of a digit string among the digit strings of its length in
\* Python's string order
CodeNum(s) ==
    IF s = "" THEN 0
    ELSE 10 * CodeNum(SubSeq(s, 1, Len(s) - 1))
         + (CHOOSE d \in 0..9 : Digits[d + 1] = SubSeq(s, Len(s), Len(s)))

RECURSIVE Sorted(_)
\* sorted(pairs), for pairs whose codes differ
Sorted(pairs) ==
    IF pairs = <<>> THEN <<>>
    ELSE LET least == CHOOSE i \in 1..Len(pairs) :
                          \A j \in 1..Len(pairs) : CodeNum(pairs[i][1]) <= CodeNum(pairs[j][1])
         IN  <<pairs[least]>>
             \o Sorted(SubSeq(pairs, 1, least - 1) \o SubSeq(pairs, least + 1, Len(pairs)))

RECURSIVE SortedCodes(_)
\* sorted(provinces): the keys of the dict in ascending order
SortedCodes(S) ==
    IF S = {} THEN <<>>
    ELSE LET least == CHOOSE c \in S : \A d \in S : CodeNum(c) <= CodeNum(d)
         IN  <<least>> \o SortedCodes(S \ {least})

\* _group_by_prefix with every pair put in every group
GroupByPrefixWhole(pairs, length) ==
    [k \in {Prefix(pairs[i][1], length) : i \in 1..Len(pairs)} |-> pairs]

\* _group_by_prefix
GroupByPrefix(pairs, length) ==
    [k \in {Prefix(pairs[i][1], length) : i \in 1..Len(pairs)} |->
        SelectSeq(pairs, LAMBDA p : Prefix(p[1], length) = k)]

\* groups.get(key, [])
GetGroup(groups, key) == IF key \in DOMAIN groups THEN groups[key] ELSE <<>>

\* {"value": code, "label": name} for each pair
Leaves(pairs) == [i \in 1..Len(pairs) |-> [value |-> pairs[i][1], label |-> pairs[i][2]]]

\* the children of a province node, every province treated as a normal one
ProvinceChildrenNoMerge(prov_code, label, cities_by_2, dists_by_2, dists_by_4) ==
    LET cities == Sorted(GetGroup(cities_by_2, Prefix(prov_code, 2)))
    IN  [i \in 1..Len(cities) |->
            [value |-> cities[i][1], label |-> cities[i][2],
             children |-> Leaves(Sorted(GetGroup(dists_by_4, Prefix(cities[i][1], 4))))]]

\* _build_tree: the children of a province node
ProvinceChildren(prov_code, label, cities_by_2, dists_by_2, dists_by_4) ==
    LET prefix2 == Prefix(prov_code, 2)
    IN  IF prefix2 \in _MERGED_PREFIXES
        THEN << [value |-> prov_code, label |-> label,
                 children |-> Leaves(Sorted(GetGroup(dists_by_2, prefix2)))] >>
        ELSE LET cities == Sorted(GetGroup(cities_by_2, prefix2))
             IN  [i \in 1..Len(cities) |->
                    [value |-> cities[i][1], label |-> cities[i][2],
                     children |-> Leaves(Sorted(GetGroup(dists_by_4,
                                                         Prefix(cities[i][1], 4))))]]

\* _build_tree
BuildTree(data) ==
    LET provinces == [c \in {data.provinces[i][1] : i \in 1..Len(data.provinces)} |->
                        data.provinces[CHOOSE i \in 1..Len(data.provinces) :
                            /\ data.provinces[i][1] = c
                            /\ \A j \in 1..Len(data.provinces) :
                                data.provinces[j][1] = c => j <= i][2]]
        cities_by_2 == GroupByPrefix(data.cities, 2)
        dists_by_2 == GroupByPrefix(data.districts, 2)
        dists_by_4 == GroupByPrefix(data.districts, 4)
        codes == SortedCodes(DOMAIN provinces)
    IN  [i \in 1..Len(codes) |->
            [value |-> codes[i], label |-> provinces[codes[i]],
             children |-> ProvinceChildren(codes[i], provinces[codes[i]],
                                           cities_by_2, dists_by_2, dists_by_4)]]

\* get_administrative_tree building the tree on every call
GetAdministrativeTreeUncached ==
    /\ pc = "idle"
    /\ call' = [op |-> "get_administrative_tree", cached |-> _cached_tree # None]
    /\ made' = [made EXCEPT !.trees = Append(@, BuildTree(raw))]
    /\ _cached_tree' = Ref(Len(made.trees) + 1)
    /\ ret' = Returned(_cached_tree')
    /\ pc' = "done"
    /\ UNCHANGED <<levels, sindexOrder, _instance, threads, raw>>

\* get_administrative_tree; the call records whether the cache was set
GetAdministrativeTree ==
    /\ pc = "idle"
    /\ call' = [op |-> "get_administrative_tree", cached |-> _cached_tree # None]
    /\ IF _cached_tree = None
       THEN /\ made' = [made EXCEPT !.trees = Append(@, BuildTree(raw))]
            /\ _cached_tree' = Ref(Len(made.trees) + 1)
       ELSE UNCHANGED <<made, _cached_tree>>
    /\ ret' = Returned(_cached_tree')
    /\ pc' = "done"
    /\ UNCHANGED <<levels, sindexOrder, _instance, threads, raw>>

\* the entries china_admin.json may hold, per list
RawPool ==
    [provinces |-> << <<"110000", "Beijing">>, <<"440000", "Guangdong">> >>,
     cities    |-> << <<"110100", "Shixiaqu">>, <<"440100", "Guangzhou">>,
                      <<"440300", "Shenzhen">> >>,
     districts |-> << <<"110101", "Dongcheng">>, <<"110228", "Miyun">>,
                      <<"440103", "Liwan">>, <<"440305", "Nanshan">>,
                      <<"441900", "Dongguan">> >>]

Reversed(q) == [i \in 1..Len(q) |-> q[Len(q) + 1 - i]]

\* the lists made of entries of a pool, in ascending or descending order
RawLists(pool) ==
    LET picks == {Pick(pool, S) : S \in SUBSET (1..Len(pool))}
    IN  picks \cup {Reversed(q) : q \in picks}

\* the package imported, any raw data, no engine in use
InitTree ==
    /\ raw \in [provinces : RawLists(RawPool.provinces),
                cities : RawLists(RawPool.cities),
                districts : RawLists(RawPool.districts)]
    /\ Imported
    /\ threads = [t \in Threads |-> IdleThread]
    /\ levels = [l \in LevelSet |-> Load(<<>>)]
    /\ sindexOrder = [l \in LevelSet |-> <<>>]
    /\ pc = "idle"
    /\ call = NoCall
    /\ ret = NoRet

NextTree ==
    \/ GetAdministrativeTree
    \/ Return

SpecTree == InitTree /\ [][NextTree]_vars

-----------------------------------------------------------------------------
(* Vocabulary of the tree properties *)

\* get_administrative_tree has returned
TreeReturned == Done("get_administrative_tree") /\ ~ret.raised

\* the tree it returned
ReturnedTree == made.trees[ret.value.id]

\* the elements of a list
Elems(q) == {q[i] : i \in 1..Len(q)}

\* the raw entries of a list whose code starts with the prefix, as leaves
RawWithPrefix(list, prefix) ==
    {[value |-> list[i][1], label |-> list[i][2]] :
        i \in {j \in 1..Len(list) : SubSeq(list[j][1], 1, Len(prefix)) = prefix}}

-----------------------------------------------------------------------------
\* C24: in the tree, every raw province is a node, and every province node
\* whose two-digit prefix is 11, 12, 31, 50, 81 or 82 has exactly one city
\* node, with the province's value and label, whose children are exactly
\* the raw districts with that two-digit prefix, each once, whatever city
\* entries the raw data holds for the prefix.
C24_MergedProvinceSingleCity ==
    TreeReturned =>
        /\ {n.value : n \in Elems(ReturnedTree)} = {p[1] : p \in Elems(raw.provinces)}
        /\ \A n \in Elems(ReturnedTree) :
            SubSeq(n.value, 1, 2) \in {"11", "12", "31", "50", "81", "82"} =>
                /\ Len(n.children) = 1
                /\ n.children[1].value = n.value
                /\ n.children[1].label = n.label
                /\ Elems(n.children[1].children)
                       = RawWithPrefix(raw.districts, SubSeq(n.value, 1, 2))
                /\ Len(n.children[1].children)
                       = Cardinality(RawWithPrefix(raw.districts, SubSeq(n.value, 1, 2)))

\* a tree was returned for raw data holding province 110000, a city entry
\* 110100 and two districts of prefix 11 with different four-digit prefixes
C24_Witness ==
    /\ TreeReturned
    /\ <<"110000", "Beijing">> \in Elems(raw.provinces)
    /\ <<"110100", "Shixiaqu">> \in Elems(raw.cities)
    /\ {<<"110101", "Dongcheng">>, <<"110228", "Miyun">>} \subseteq Elems(raw.districts)
    /\ Len(ReturnedTree[1].children[1].children) = 2

-----------------------------------------------------------------------------
\* C25: in every sequence of calls of get_administrative_tree at most one
\* tree is ever built, and every call returns that one object: the object
\* the first call built and returned.
C25_TreeBuiltOnce ==
    /\ Len(made.trees) <= 1
    /\ _cached_tree # None => _cached_tree = Ref(1)
    /\ TreeReturned =>
        /\ Len(made.trees) = 1
        /\ ret.value = Ref(1)
        /\ _cached_tree = Ref(1)

\* a call made when the cache was already set has returned, for raw data
\* without provinces, whose tree is the empty list
C25_Witness ==
    /\ TreeReturned
    /\ call.cached
    /\ raw.provinces = <<>>
    /\ ReturnedTree = <<>>

-----------------------------------------------------------------------------
\* the row position of a region of a level (the rows of a table differ in
\* their codes)
RowOf(l, r) == CHOOSE i \in 1..Len(levels[l].gdf) : RegionOfRow(l, i) = r

\* C26: for every query (a code, an exact name, the fallback; filtered or
\* not) the list search returns holds the province regions first, then the
\* city regions, then the district regions, and the regions of one level
\* stand in ascending order of their row positions.
C26_LevelThenRowOrder ==
    (Searched /\ call.level \in LevelSet \cup {NoArg}) =>
        /\ ret.value = OfLevel(ret.value, "province") \o OfLevel(ret.value, "city")
                           \o OfLevel(ret.value, "district")
        /\ \A l \in LevelSet :
            LET got == OfLevel(ret.value, l)
            IN  \A j, k \in 1..Len(got) : j < k => RowOf(l, got[j]) < RowOf(l, got[k])

\* the fallback has returned two regions of one level after a region of an
\* earlier level
C26_Witness ==
    /\ Searched
    /\ Unfiltered
    /\ call.level = NoArg
    /\ ~IsDigit(call.query)
    /\ ExactLevels(call.query, NoArg) = {}
    /\ Len(OfLevel(ret.value, "province")) >= 1
    /\ Len(OfLevel(ret.value, "district")) = 2

-----------------------------------------------------------------------------
\* C27: the point reported in every region that list_regions or search
\* returns (the representative point rounded to six decimals) is contained
\* by the polygon of the region's own row, under the containment test of
\* the queries.
C27_ReportedPointInOwnPolygon ==
    /\ (Done("list_regions") /\ ~ret.raised) =>
        \A k \in 1..Len(ret.value) :
            Contains(levels[call.level].gdf[k].geometry,
                     Point(ret.value[k].longitude, ret.value[k].latitude))
    /\ (Searched /\ call.level \in LevelSet \cup {NoArg}) =>
        \A k \in 1..Len(ret.value) :
            Contains(levels[ret.value[k].level].gdf[RowOf(ret.value[k].level, ret.value[k])].geometry,
                     Point(ret.value[k].longitude, ret.value[k].latitude))

-----------------------------------------------------------------------------
(* reverse and is_in_region on catalogs that may hold a city row breaking  *)
(* the merge rule and two district rows with one code.                     *)

ContainPool ==
    [province |-> << Row("Beijing", "156110000", Rect(0, 0, 4, 4)) >>,
     city     |-> << Row("Beijing", "156110000", Rect(0, 0, 4, 4)),
                     Row("Shixiaqu", "156110100", Rect(0, 0, 4, 2)),
                     Row("Shenzhen", "156440300", Tri(0, 0, 4)) >>,
     district |-> << Row("Haidian", "156110108", Rect(0, 0, 4, 2)),
                     Row("Haidian", "156110108", Rect(0, 2, 4, 4)),
                     Row("Nanshan", "156440305", Tri(0, 0, 4)) >>]

InitContain ==
    /\ \E t \in [LevelSet -> UNION {Tables(ContainPool[l]) : l \in LevelSet}] :
        /\ \A l \in LevelSet : t[l] \in Tables(ContainPool[l])
        /\ levels = [l \in LevelSet |-> Load(t[l])]
    /\ sindexOrder \in [LevelSet -> UNION {Orders(n) : n \in 0..MaxRows}]
    /\ \A l \in LevelSet : sindexOrder[l] \in Orders(Len(levels[l].gdf))
    /\ pc = "idle"
    /\ call = NoCall
    /\ ret = NoRet
    /\ Standalone

NextContain ==
    \/ Reverse
    \/ IsInRegion
    \/ Return

SpecContain == InitContain /\ [][NextContain]_vars

\* the catalog follows the merge rule: a city row of a merged prefix
\* carries the province code of the prefix
FollowsMergeRule ==
    \A i \in 1..Len(levels.city.gdf) :
        LET gb == levels.city.gdf[i].gb
        IN  SubSeq(gb, 4, 5) \in {"11", "12", "31", "50", "81", "82"} =>
                gb = "156" \o SubSeq(gb, 4, 5) \o "0000"

\* every code is "156" and a six-digit adcode
CodesAreAdcodes ==
    \A l \in LevelSet : \A i \in 1..Len(levels[l].gdf) :
        LET gb == levels[l].gdf[i].gb
        IN  Len(gb) = 9 /\ SubSeq(gb, 1, 3) = "156" /\ WellFormed(SubSeq(gb, 4, 9))

\* no two rows of the level carry the same code
UniqueCodes(l) ==
    \A i, j \in 1..Len(levels[l].gdf) :
        levels[l].gdf[i].gb = levels[l].gdf[j].gb => i = j

\* the levels at which reverse reports, for the point of the call, a region
\* whose code is "156" and the adcode of the call, the adcode's suffix
\* pattern denoting that level
ReportedAs(adcode) ==
    {l \in LevelSet :
        /\ ReverseOf(call.lat, call.lng)[l] # None
        /\ ReverseOf(call.lat, call.lng)[l].code = "156" \o adcode
        /\ AdcodeLevel(adcode) = l}

\* C28 (as stated): in a catalog that follows the merge rule, with codes
\* "156" + adcode, if reverse(p) reports R at level L and the suffix pattern
\* of R's adcode denotes L, then is_in_region(p, R's adcode) returns true.
C28_ReverseImpliesIsInRegion ==
    (Done("is_in_region") /\ FollowsMergeRule /\ CodesAreAdcodes
        /\ ReportedAs(call.adcode) # {}) =>
        ret = Returned(TRUE)

\* C28: the same, for a level in which no two rows share a code; with two
\* rows of one code the code index holds the later row only, and
\* is_in_region tests that row's polygon.
C28_ReverseImpliesIsInRegionUniqueCodes ==
    (Done("is_in_region") /\ FollowsMergeRule /\ CodesAreAdcodes) =>
        \A l \in ReportedAs(call.adcode) :
            UniqueCodes(l) => ret = Returned(TRUE)

\* is_in_region has answered true for the adcode of the city that reverse
\* reports for the point, off the diagonal, in a city table with two rows
C28_Witness ==
    /\ Done("is_in_region")
    /\ FollowsMergeRule
    /\ call.lat # call.lng
    /\ "city" \in ReportedAs(call.adcode)
    /\ Len(levels.city.gdf) = 2
    /\ ret = Returned(TRUE)

-----------------------------------------------------------------------------
\* C29: in the tree, every city node has the first two code digits of its
\* province node, every district node has the first two code digits of its
\* province ancestor, and under a province whose prefix is not a merge
\* prefix every district node has the first four code digits of its city
\* parent.
C29_NodesSharePrefixes ==
    TreeReturned =>
        \A n \in Elems(ReturnedTree) : \A c \in Elems(n.children) :
            /\ SubSeq(c.value, 1, 2) = SubSeq(n.value, 1, 2)
            /\ \A d \in Elems(c.children) :
                /\ SubSeq(d.value, 1, 2) = SubSeq(n.value, 1, 2)
                /\ SubSeq(n.value, 1, 2) \notin {"11", "12", "31", "50", "81", "82"} =>
                    SubSeq(d.value, 1, 4) = SubSeq(c.value, 1, 4)

\* a tree was returned in which a normal province has two cities with a
\* district each, for raw data that also holds a district of that province
\* under no city and districts of a merged province
C29_Witness ==
    /\ TreeReturned
    /\ <<"441900", "Dongguan">> \in Elems(raw.districts)
    /\ <<"110228", "Miyun">> \in Elems(raw.districts)
    /\ \E n \in Elems(ReturnedTree) :
        /\ n.value = "440000"
        /\ Len(n.children) = 2
        /\ \A c \in Elems(n.children) : Len(c.children) = 1
====
